---- MODULE Spec2Model ----
(***************************************************************************)
(* Model of the Z-Wave COMMAND_CLASS_ALARM adapter of OpenZWave            *)
(* (cpp/src/command_classes/Alarm.cpp): the constructor, CreateVars,       *)
(* RequestState, RequestValue and HandleMsg, over the node's value store,  *)
(* the StaticRequest_Values flag and the messages handed to the driver.    *)
(*                                                                         *)
(* A frame is a buffer `data` with a declared `length`.  C index i of the  *)
(* buffer is data[i+1].  The buffer is longer than the declared length:    *)
(* the bytes at C index >= length are whatever the memory behind the       *)
(* frame holds, so a read past the declared length yields any byte of the  *)
(* sampled domains.                                                        *)
(***************************************************************************)
EXTENDS Integers, Sequences, FiniteSets, TLC

VARIABLES
    version,        \* GetVersion(): negotiated protocol version
    getSupported,   \* IsGetSupported()
    nodePresent,    \* GetNodeUnsafe() != NULL
    staticRequest,  \* HasStaticRequest( StaticRequest_Values )
    values,         \* the node's value store: instance -> (index -> byte)
    sent,           \* messages handed to Driver::SendMsg by the last call
    ret,            \* return value of the last call
    last,           \* the last call and its arguments
    reads,          \* C indexes of _data the last call read
    held            \* Value handles acquired with GetValue and not yet released

vars == <<version, getSupported, nodePresent, staticRequest, values, sent, ret, last,
          reads, held>>

-----------------------------------------------------------------------------
\* Program constants

AlarmCmd_Get == 4
AlarmCmd_Report == 5
AlarmCmd_Set == 6
AlarmCmd_SupportedGet == 7
AlarmCmd_SupportedReport == 8

AlarmIndex_Type == 0
AlarmIndex_Level == 1
AlarmIndex_SourceNodeId == 2

Alarm_Count == 14

\* length test of the version 2 part of a Report
ReportV2Length == 7

\* uint8 arithmetic of the value index
ByteModulus == 256

-----------------------------------------------------------------------------
\* Bounds

MaxVersion == 3
\* frames carry up to MaxExtra bytes beyond the 7 of a version 2 Report
MaxExtra == 1
\* a SupportedReport declares up to MaxMaskBytes mask bytes
MaxMaskBytes == 2

\* the sub-instances (endpoints) of the device
Instances == {1, 2}
\* the sub-instance Spec drives with every frame
Driven == {1}

\* sampled byte domains of the Report fields (also what a read past the
\* declared length may yield)
TypeBytes == {21}
LevelBytes == {1}
SourceBytes == {3}
StatusBytes == {0}
\* 6 = Access Control, 14 = first ordinal outside the family,
\* 253 = ordinal whose index 253+3 wraps to 0 as uint8
OrdinalBytes == {6, 14, 253}
EventBytes == {9}

\* mask byte values by position: 5 = {0,2}, 66 = {1,6} in byte 0;
\* 96 = bits 5,6 = ordinals 13 and 14 in byte 1; bit 0 of later bytes
MaskByteValues(i) == IF i = 0 THEN {0, 5, 66} ELSE IF i = 1 THEN {0, 96} ELSE {0, 1}

RequestFlags == SUBSET {"Static", "Dynamic"}

-----------------------------------------------------------------------------
\* Frames

Zeros(n) == [k \in 1..n |-> 0]

ReportBufLen == ReportV2Length + MaxExtra

ReportFrames ==
    { [data |-> <<AlarmCmd_Report, t, l, s, st, o, e>> \o Zeros(MaxExtra), length |-> n] :
        t \in TypeBytes, l \in LevelBytes, s \in SourceBytes, st \in StatusBytes,
        o \in OrdinalBytes, e \in EventBytes, n \in 1..ReportBufLen }

\* the sequences of n mask bytes
RECURSIVE MaskSeqs(_)
MaskSeqs(n) ==
    IF n = 0 THEN { <<>> }
    ELSE { Append(s, b) : s \in MaskSeqs(n - 1), b \in MaskByteValues(n - 1) }

\* byte 1 declares c mask bytes, which the buffer holds; the declared length
\* is that of the whole frame (c + 2) or one byte short of it, so that the
\* last byte read lies behind the frame
\* count bytes with a bit above 0x1F set: 0x21 is count 1 with a reserved bit
ReservedCountBytes == {33}

\* a 3-byte SupportedReport whose count byte has a reserved bit set; the bytes
\* after the mask byte are whatever lies behind the frame
ReservedCountFrames ==
    { [data |-> <<AlarmCmd_SupportedReport, c, 5, g>> \o Zeros(c - 2), length |-> 3] :
        c \in ReservedCountBytes, g \in {0, 96} }

SupportedReportFrames ==
    UNION { { [data |-> <<AlarmCmd_SupportedReport, c>> \o m \o Zeros(MaxMaskBytes - c),
               length |-> n] : m \in MaskSeqs(c), n \in {c + 1, c + 2} }
            : c \in 0..MaxMaskBytes }
        \cup ReservedCountFrames

OtherFrames ==
    { [data |-> <<c, 0>>, length |-> 2] :
        c \in {AlarmCmd_Get, AlarmCmd_Set, AlarmCmd_SupportedGet} }

Frames == ReportFrames \cup SupportedReportFrames \cup OtherFrames

-----------------------------------------------------------------------------
\* The value store (Node / ValueStore collaborator)

\* a handle is <<byte>>, the null pointer is the empty sequence
NULL == <<>>

\* CommandClass::GetValue( uint8 _instance, uint8 _index ): a handle of the
\* stored byte, or NULL
GetValue(vals, inst, index) ==
    IF (index % ByteModulus) \in DOMAIN vals[inst]
    THEN <<vals[inst][index % ByteModulus]>>
    ELSE NULL

\* Node::CreateValueByte( ..., _instance, _index, ..., default 0 ): the store
\* keeps one value per identifier; creating an existing one changes nothing
CreateValueByte(vals, inst, index) ==
    IF index \in DOMAIN vals[inst]
    THEN vals
    ELSE [vals EXCEPT ![inst] = (index :> 0) @@ vals[inst]]

\* Refresh that creates the value when the store has none
Refresh_CreateIfAbsent(vals, inst, index, b) ==
    [vals EXCEPT ![inst] = ((index % ByteModulus) :> b) @@ vals[inst]]

\* if( (value = GetValue( _instance, index )) ) { value->OnValueRefreshed( b ); value->Release(); }
Refresh(vals, inst, index, b) ==
    IF GetValue(vals, inst, index) # NULL
    THEN [vals EXCEPT ![inst][index % ByteModulus] = b]
    ELSE vals

\* the discovered capability set of a sub-instance: the ordinals i below
\* Alarm_Count whose value i+3 exists, as the loop of RequestValue tests it
Discovered(vals, inst) ==
    { k - 3 : k \in (DOMAIN vals[inst]) \cap (3..(Alarm_Count + 2)) }

-----------------------------------------------------------------------------
\* Outbound messages

\* the Msg built by RequestState: length byte 2, SupportedGet
SupportedGetMsg(inst) ==
    [instance |-> inst, length |-> 2, cmd |-> AlarmCmd_SupportedGet, args |-> <<>>]

\* the Msg built by RequestValue at version 1
GetMsgV1(inst) ==
    [instance |-> inst, length |-> 2, cmd |-> AlarmCmd_Get, args |-> <<>>]

\* GetMsgV2 with the version test of the trailing byte off by one
GetMsgV2_LateFirstEvent(ver, inst, i) ==
    [instance |-> inst,
     length |-> IF ver = 2 THEN 4 ELSE 5,
     cmd |-> AlarmCmd_Get,
     args |-> IF ver > 3 THEN <<0, i, 1>> ELSE <<0, i>>]

\* the Msg built by RequestValue at version >= 2 for ordinal i
GetMsgV2(ver, inst, i) ==
    [instance |-> inst,
     length |-> IF ver = 2 THEN 4 ELSE 5,
     cmd |-> AlarmCmd_Get,
     args |-> IF ver > 2 THEN <<0, i, 1>> ELSE <<0, i>>]

\* RequestValueLoop that looks the values up under sub-instance 1 whatever
\* _instance is
RECURSIVE RequestValueLoop_FirstInstance(_, _, _, _)
RequestValueLoop_FirstInstance(vals, ver, inst, i) ==
    IF i >= Alarm_Count THEN <<>>
    ELSE (IF GetValue(vals, 1, i + 3) # NULL
          THEN <<GetMsgV2(ver, inst, i)>>
          ELSE <<>>) \o RequestValueLoop_FirstInstance(vals, ver, inst, i + 1)

\* the loop of RequestValue, from ordinal i on
RECURSIVE RequestValueLoop(_, _, _, _)
RequestValueLoop(vals, ver, inst, i) ==
    IF i >= Alarm_Count THEN <<>>
    ELSE (IF GetValue(vals, inst, i + 3) # NULL
          THEN <<GetMsgV2(ver, inst, i)>>
          ELSE <<>>) \o RequestValueLoop(vals, ver, inst, i + 1)

\* RequestValueMsgs without the IsGetSupported test
RequestValueMsgs_IgnoresGetSupported(vals, ver, getSup, inst) ==
    IF ver = 1
    THEN <<GetMsgV1(inst)>>
    ELSE RequestValueLoop(vals, ver, inst, 0)

\* RequestValueMsgs without the version 1 branch
RequestValueMsgs_AlwaysLoop(vals, ver, getSup, inst) ==
    IF getSup THEN RequestValueLoop(vals, ver, inst, 0) ELSE <<>>

\* messages RequestValue sends
RequestValueMsgs(vals, ver, getSup, inst) ==
    IF getSup
    THEN IF ver = 1
         THEN <<GetMsgV1(inst)>>
         ELSE RequestValueLoop(vals, ver, inst, 0)
    ELSE <<>>

\* value RequestValue returns
RequestValueRet(vals, ver, getSup, inst) ==
    IF getSup
    THEN IF ver = 1 THEN TRUE ELSE RequestValueLoop(vals, ver, inst, 0) # <<>>
    ELSE FALSE

\* handles RequestValue acquires: one per GetValue that finds a value
RequestValueAcquired(vals, ver, getSup, inst) ==
    IF getSup /\ ver # 1 THEN Len(RequestValueLoop(vals, ver, inst, 0)) ELSE 0

\* handles RequestValue releases: value->Release() at the head of the loop body
RequestValueReleased(vals, ver, getSup, inst) ==
    IF getSup /\ ver # 1 THEN Len(RequestValueLoop(vals, ver, inst, 0)) ELSE 0

\* StaticBranch without the version test
StaticBranch_NoVersionTest(flags, static, ver) ==
    "Static" \in flags /\ static

\* RequestState takes the SupportedGet branch
StaticBranch(flags, static, ver) ==
    "Static" \in flags /\ static /\ ver > 1

-----------------------------------------------------------------------------
\* Inbound frames

\* ReportValues with the sub-type index computed without the SourceNodeId slot
ReportValues_WrongIndex(vals, ver, data, length, inst) ==
    LET v1 == Refresh(vals, inst, AlarmIndex_Type, data[2])
        v2 == Refresh(v1, inst, AlarmIndex_Level, data[3])
    IN  IF ver > 1 /\ length >= ReportV2Length
        THEN LET v3 == Refresh(v2, inst, AlarmIndex_SourceNodeId, data[4])
             IN  Refresh(v3, inst, data[6] + 2, data[7])
        ELSE v2

\* HandleMsg, Report: the store after the frame
ReportValues(vals, ver, data, length, inst) ==
    LET v1 == Refresh(vals, inst, AlarmIndex_Type, data[2])
        v2 == Refresh(v1, inst, AlarmIndex_Level, data[3])
    IN  IF ver > 1 /\ length >= ReportV2Length
        THEN LET v3 == Refresh(v2, inst, AlarmIndex_SourceNodeId, data[4])
             IN  Refresh(v3, inst, data[6] + 3, data[7])
        ELSE v2

\* 1 when GetValue finds the value, else 0
Found(vals, inst, index) ==
    IF GetValue(vals, inst, index) # NULL THEN 1 ELSE 0

\* HandleMsg, Report: handles acquired by the GetValue calls
ReportAcquired(vals, ver, data, length, inst) ==
    Found(vals, inst, AlarmIndex_Type) + Found(vals, inst, AlarmIndex_Level)
        + (IF ver > 1 /\ length >= ReportV2Length
           THEN Found(vals, inst, AlarmIndex_SourceNodeId) + Found(vals, inst, data[6] + 3)
           ELSE 0)

\* ReportReleased without the Release of the sub-type value
ReportReleased_SubTypeLeaked(vals, ver, data, length, inst) ==
    Found(vals, inst, AlarmIndex_Type) + Found(vals, inst, AlarmIndex_Level)
        + (IF ver > 1 /\ length >= ReportV2Length
           THEN Found(vals, inst, AlarmIndex_SourceNodeId)
           ELSE 0)

\* HandleMsg, Report: handles released by the value->Release() calls, one in
\* each block entered with a value found
ReportReleased(vals, ver, data, length, inst) ==
    Found(vals, inst, AlarmIndex_Type) + Found(vals, inst, AlarmIndex_Level)
        + (IF ver > 1 /\ length >= ReportV2Length
           THEN Found(vals, inst, AlarmIndex_SourceNodeId) + Found(vals, inst, data[6] + 3)
           ELSE 0)

\* HandleMsg: the C indexes of _data it reads.  A Report at version 1 reads
\* 0..2; at version >= 2 the log line reads 1..6 whatever _length is; a
\* SupportedReport reads the count and numBytes mask bytes when the node is
\* present.
ReadIndexes(ver, node, data) ==
    IF data[1] = AlarmCmd_Report
    THEN IF ver = 1 THEN 0..2 ELSE 0..6
    ELSE IF data[1] = AlarmCmd_SupportedReport
    THEN IF node THEN {0, 1} \cup { i + 2 : i \in 0..(data[2] - 1) } ELSE {0}
    ELSE {0}

\* bit `bit` of byte b
BitSet(b, bit) == (b \div (2 ^ bit)) % 2 = 1

\* SupportedBits with the family bound test off by one (<= instead of <)
RECURSIVE SupportedBits_InclusiveBound(_, _, _, _, _)
SupportedBits_InclusiveBound(vals, data, inst, i, bit) ==
    IF bit >= 8 THEN vals
    ELSE LET index == i * 8 + bit
             next == IF BitSet(data[i + 3], bit) /\ index <= Alarm_Count
                     THEN CreateValueByte(vals, inst, index + 3)
                     ELSE vals
         IN  SupportedBits_InclusiveBound(next, data, inst, i, bit + 1)

\* HandleMsg, SupportedReport: the inner loop over the bits of mask byte i
RECURSIVE SupportedBits(_, _, _, _, _)
SupportedBits(vals, data, inst, i, bit) ==
    IF bit >= 8 THEN vals
    ELSE LET index == i * 8 + bit
             next == IF BitSet(data[i + 3], bit) /\ index < Alarm_Count
                     THEN CreateValueByte(vals, inst, index + 3)
                     ELSE vals
         IN  SupportedBits(next, data, inst, i, bit + 1)

\* HandleMsg, SupportedReport: the outer loop over the numBytes mask bytes.
\* The loop stops at the first byte whose bits all have index >= Alarm_Count:
\* from there on the body creates nothing (the bytes are still read, see
\* ReadIndexes).
RECURSIVE SupportedBytes(_, _, _, _, _)
SupportedBytes(vals, data, inst, i, numBytes) ==
    IF i >= numBytes \/ i * 8 >= Alarm_Count THEN vals
    ELSE SupportedBytes(SupportedBits(vals, data, inst, i, 0), data, inst, i + 1, numBytes)

\* SupportedReportValues that keeps only the sub-type values of this mask
SupportedReportValues_Replace(vals, data, length, inst) ==
    LET kept == [k \in (DOMAIN vals[inst]) \cap 0..AlarmIndex_SourceNodeId |-> vals[inst][k]]
        base == [vals EXCEPT ![inst] = kept]
    IN  SupportedBytes(CreateValueByte(base, inst, AlarmIndex_SourceNodeId), data, inst, 0, data[2])

\* SupportedReportValues that allocates the next free identifiers to the
\* ordinals of the mask instead of index+3
SupportedReportValues_NextFree(vals, data, length, inst) ==
    LET base == CreateValueByte(vals, inst, AlarmIndex_SourceNodeId)
        fresh == [i \in DOMAIN vals |-> <<>>]
        found == Discovered(SupportedBytes(fresh, data, inst, 0, data[2]), inst)
        top == CHOOSE m \in DOMAIN base[inst] : \A k \in DOMAIN base[inst] : k <= m
        added == [k \in (top + 1)..(top + Cardinality(found)) |-> 0]
    IN  [base EXCEPT ![inst] = added @@ base[inst]]

\* HandleMsg, SupportedReport with the node present: the store after the frame
SupportedReportValues(vals, data, length, inst) ==
    SupportedBytes(CreateValueByte(vals, inst, AlarmIndex_SourceNodeId), data, inst, 0, data[2])

-----------------------------------------------------------------------------
\* Operations

Call(op, inst, flags, data, length) ==
    [op |-> op, inst |-> inst, flags |-> flags, data |-> data, length |-> length]

\* Alarm::Alarm
Init ==
    /\ version \in 1..MaxVersion
    /\ getSupported \in BOOLEAN
    /\ nodePresent \in BOOLEAN
    /\ staticRequest = TRUE
    /\ values = [i \in Instances |-> <<>>]
    /\ sent = <<>>
    /\ ret = FALSE
    /\ last = Call("Alarm", 0, {}, <<>>, 0)
    /\ reads = {}
    /\ held = 0

\* Alarm::CreateVars
CreateVars(inst) ==
    /\ values' = IF nodePresent
                 THEN CreateValueByte(CreateValueByte(values, inst, AlarmIndex_Type),
                                      inst, AlarmIndex_Level)
                 ELSE values
    /\ sent' = <<>>
    /\ ret' = FALSE
    /\ last' = Call("CreateVars", inst, {}, <<>>, 0)
    /\ reads' = {}
    /\ UNCHANGED <<version, getSupported, nodePresent, staticRequest, held>>

\* Alarm::RequestState
RequestState(flags, inst) ==
    /\ IF StaticBranch(flags, staticRequest, version)
       THEN /\ sent' = <<SupportedGetMsg(inst)>>
            /\ ret' = TRUE
            /\ UNCHANGED held
       ELSE IF "Dynamic" \in flags
       THEN /\ sent' = RequestValueMsgs(values, version, getSupported, inst)
            /\ ret' = RequestValueRet(values, version, getSupported, inst)
            /\ held' = held + RequestValueAcquired(values, version, getSupported, inst)
                             - RequestValueReleased(values, version, getSupported, inst)
       ELSE /\ sent' = <<>>
            /\ ret' = FALSE
            /\ UNCHANGED held
    /\ reads' = {}
    /\ last' = Call("RequestState", inst, flags, <<>>, 0)
    /\ UNCHANGED <<version, getSupported, nodePresent, staticRequest, values>>

\* Alarm::RequestValue
RequestValue(inst) ==
    /\ sent' = RequestValueMsgs(values, version, getSupported, inst)
    /\ ret' = RequestValueRet(values, version, getSupported, inst)
    /\ held' = held + RequestValueAcquired(values, version, getSupported, inst)
                     - RequestValueReleased(values, version, getSupported, inst)
    /\ reads' = {}
    /\ last' = Call("RequestValue", inst, {}, <<>>, 0)
    /\ UNCHANGED <<version, getSupported, nodePresent, staticRequest, values>>

\* HandleMsg that answers true for every opcode
HandleMsg_ConsumesAll(data, length, inst) ==
    /\ IF data[1] = AlarmCmd_Report
       THEN /\ values' = ReportValues(values, version, data, length, inst)
            /\ held' = held + ReportAcquired(values, version, data, length, inst)
                             - ReportReleased(values, version, data, length, inst)
            /\ UNCHANGED staticRequest
       ELSE IF data[1] = AlarmCmd_SupportedReport
       THEN /\ values' = IF nodePresent
                         THEN SupportedReportValues(values, data, length, inst)
                         ELSE values
            /\ staticRequest' = FALSE
            /\ UNCHANGED held
       ELSE UNCHANGED <<values, staticRequest, held>>
    /\ ret' = TRUE
    /\ reads' = ReadIndexes(version, nodePresent, data)
    /\ sent' = <<>>
    /\ last' = Call("HandleMsg", inst, {}, SubSeq(data, 1, length), length)
    /\ UNCHANGED <<version, getSupported, nodePresent>>

\* HandleMsg without ClearStaticRequest after a SupportedReport
HandleMsg_KeepsStaticRequest(data, length, inst) ==
    /\ IF data[1] = AlarmCmd_Report
       THEN /\ values' = ReportValues(values, version, data, length, inst)
            /\ held' = held + ReportAcquired(values, version, data, length, inst)
                             - ReportReleased(values, version, data, length, inst)
            /\ ret' = TRUE
            /\ UNCHANGED staticRequest
       ELSE IF data[1] = AlarmCmd_SupportedReport
       THEN /\ values' = IF nodePresent
                         THEN SupportedReportValues(values, data, length, inst)
                         ELSE values
            /\ UNCHANGED staticRequest
            /\ ret' = TRUE
            /\ UNCHANGED held
       ELSE /\ ret' = FALSE
            /\ UNCHANGED <<values, staticRequest, held>>
    /\ reads' = ReadIndexes(version, nodePresent, data)
    /\ sent' = <<>>
    /\ last' = Call("HandleMsg", inst, {}, SubSeq(data, 1, length), length)
    /\ UNCHANGED <<version, getSupported, nodePresent>>

\* Alarm::HandleMsg
HandleMsg(data, length, inst) ==
    /\ IF data[1] = AlarmCmd_Report
       THEN /\ values' = ReportValues(values, version, data, length, inst)
            /\ held' = held + ReportAcquired(values, version, data, length, inst)
                             - ReportReleased(values, version, data, length, inst)
            /\ ret' = TRUE
            /\ UNCHANGED staticRequest
       ELSE IF data[1] = AlarmCmd_SupportedReport
       THEN /\ values' = IF nodePresent
                         THEN SupportedReportValues(values, data, length, inst)
                         ELSE values
            /\ staticRequest' = FALSE
            /\ ret' = TRUE
            /\ UNCHANGED held
       ELSE /\ ret' = FALSE
            /\ UNCHANGED <<values, staticRequest, held>>
    /\ reads' = ReadIndexes(version, nodePresent, data)
    /\ sent' = <<>>
    /\ last' = Call("HandleMsg", inst, {}, SubSeq(data, 1, length), length)
    /\ UNCHANGED <<version, getSupported, nodePresent>>

Next ==
    \/ \E inst \in Driven : CreateVars(inst)
    \/ \E flags \in RequestFlags, inst \in Driven : RequestState(flags, inst)
    \/ \E inst \in Driven : RequestValue(inst)
    \/ \E f \in Frames, inst \in Driven : HandleMsg(f.data, f.length, inst)

Spec == Init /\ [][Next]_vars

\* the frames SpecInstances delivers to both sub-instances: the one-byte
\* masks {0,2} and {1,6}, the 7-byte Report of ordinal 6 and an inbound Get
CoreFrames ==
    { f \in SupportedReportFrames : f.data[2] = 1 /\ f.length = 3 /\ f.data[3] # 0 }
        \cup { f \in ReportFrames : f.length = ReportV2Length /\ f.data[6] = 6 }
        \cup { f \in OtherFrames : f.data[1] = AlarmCmd_Get }

NextInstances ==
    \/ \E inst \in Instances : CreateVars(inst)
    \/ \E flags \in RequestFlags, inst \in Instances : RequestState(flags, inst)
    \/ \E inst \in Instances : RequestValue(inst)
    \/ \E f \in CoreFrames, inst \in Instances : HandleMsg(f.data, f.length, inst)

\* every sub-instance driven, with the frames of CoreFrames
SpecInstances == Init /\ [][NextInstances]_vars

\* the SupportedReports a device answers with: the count byte followed by
\* exactly that many mask bytes
AnswerFrames ==
    { f \in SupportedReportFrames : f.length = f.data[2] + 2 }

\* the driver issues a static RequestState poll
StaticPoll ==
    \E flags \in {{"Static"}, {"Static", "Dynamic"}}, inst \in Driven :
        RequestState(flags, inst)

\* the device answers the SupportedGet just sent, and the SupportedReport is
\* delivered to HandleMsg for the sub-instance that asked
Answer ==
    \E k \in DOMAIN sent :
        /\ sent[k].cmd = AlarmCmd_SupportedGet
        /\ \E f \in AnswerFrames : HandleMsg(f.data, f.length, sent[k].instance)

\* the rest of the traffic: value creation, dynamic polls, Reports
Traffic ==
    \/ \E inst \in Driven : CreateVars(inst)
    \/ \E inst \in Driven : RequestValue(inst)
    \/ \E f \in CoreFrames \cap ReportFrames, inst \in Driven :
          HandleMsg(f.data, f.length, inst)

NextLive ==
    \/ StaticPoll
    \/ Answer
    \/ Traffic

\* the driver keeps polling (RequestState can always be called) and the
\* device answers: a SupportedGet that keeps being sent is answered
SpecLive ==
    Init /\ [][NextLive]_vars /\ WF_vars(StaticPoll) /\ SF_vars(Answer)

-----------------------------------------------------------------------------
\* Properties

\* the last call was a poll: RequestValue, or RequestState with the static
\* and dynamic request flags
IsPoll ==
    \/ last.op = "RequestValue"
    \/ last.op = "RequestState" /\ last.flags = {"Static", "Dynamic"}

\* the last call handled a frame with opcode cmd
Handled(cmd) ==
    last.op = "HandleMsg" /\ last.data[1] = cmd

\* C1: at version >= 2 with Get supported, a poll for a sub-instance whose
\* discovered set is empty sends exactly one SupportedGet and no Get.
\* (polls leave the store unchanged, so the set after the poll is the set
\* the poll saw)
C1_EmptySetPollSendsSupportedGet ==
    (version >= 2 /\ getSupported /\ IsPoll /\ Discovered(values, last.inst) = {})
        => /\ Len(sent) = 1
           /\ sent[1].cmd = AlarmCmd_SupportedGet
           /\ sent[1].instance = last.inst

\* C2: at version >= 2 with Get supported and a non-empty discovered set,
\* RequestValue sends one Get per discovered ordinal and no other frame, in
\* ascending ordinal order, each with its ordinal; with the trailing 0x01
\* and length 5 at version >= 3, without it and length 4 at version 2.
C2_OneGetPerDiscoveredOrdinal ==
    (version >= 2 /\ getSupported /\ last.op = "RequestValue"
        /\ Discovered(values, last.inst) # {})
        => /\ Len(sent) = Cardinality(Discovered(values, last.inst))
           /\ \A k \in 1..Len(sent) :
                /\ sent[k].cmd = AlarmCmd_Get
                /\ sent[k].instance = last.inst
                /\ sent[k].args[1] = 0
                /\ sent[k].args[2] \in Discovered(values, last.inst)
                /\ \A j \in 1..(k - 1) : sent[j].args[2] < sent[k].args[2]
                /\ IF version >= 3
                   THEN Len(sent[k].args) = 3 /\ sent[k].args[3] = 1 /\ sent[k].length = 5
                   ELSE Len(sent[k].args) = 2 /\ sent[k].length = 4

\* C2 witness: version 3, discovered set {0,2}, two Get frames sent
C2_Witness ==
    /\ version = 3 /\ getSupported /\ last.op = "RequestValue"
    /\ Discovered(values, last.inst) = {0, 2}
    /\ Len(sent) = 2
    /\ sent[1].args = <<0, 0, 1>> /\ sent[2].args = <<0, 2, 1>>

\* C3: at version 1 with Get supported, RequestValue and RequestState with
\* the dynamic flag send exactly one frame, a Get without ordinal byte,
\* and return true.
C3_Version1SingleGet ==
    (version = 1 /\ getSupported
        /\ (last.op = "RequestValue" \/ (last.op = "RequestState" /\ "Dynamic" \in last.flags)))
        => /\ Len(sent) = 1
           /\ sent[1].cmd = AlarmCmd_Get
           /\ sent[1].args = <<>>
           /\ sent[1].length = 2
           /\ sent[1].instance = last.inst
           /\ ret = TRUE

\* C3 witness: version 1, sub-type attributes exist (a SupportedReport was
\* handled), RequestState with the dynamic flag sent its single Get
C3_Witness ==
    /\ version = 1 /\ getSupported
    /\ last.op = "RequestState" /\ "Dynamic" \in last.flags
    /\ Discovered(values, last.inst) # {}
    /\ Len(sent) = 1 /\ ret = TRUE

\* C4: the discovered set of every sub-instance only grows: no step removes
\* an ordinal from it.
C4_DiscoveredOnlyGrows ==
    [][\A inst \in Instances : Discovered(values, inst) \subseteq Discovered(values', inst)]_vars

\* C4 witness: a SupportedReport with mask {0,2} was handled for a
\* sub-instance that had discovered 1 and 6, which are still there
C4_Witness ==
    /\ Handled(AlarmCmd_SupportedReport)
    /\ last.length = 3 /\ last.data[2] = 1 /\ last.data[3] = 5
    /\ Discovered(values, last.inst) = {0, 1, 2, 6}

\* a step that handles a Report of at least 7 bytes at version >= 2
V2ReportStep ==
    /\ last'.op = "HandleMsg"
    /\ last'.data[1] = AlarmCmd_Report
    /\ last'.length >= ReportV2Length
    /\ version >= 2

\* C5: a Report creates no attribute; a Report at version >= 2 whose
\* subTypeOrdinal is not discovered for that sub-instance changes no
\* sub-type attribute (index 3 or more) and returns true; so a Report before
\* any SupportedReport changes at most Type, Level and SourceNodeId.
C5_UndiscoveredOrdinalNotWritten ==
    [][(last'.op = "HandleMsg" /\ last'.data[1] = AlarmCmd_Report)
         => /\ \A i \in Instances : DOMAIN values'[i] = DOMAIN values[i]
            /\ ret' = TRUE
            /\ (V2ReportStep /\ last'.data[6] \notin Discovered(values, last'.inst))
                 => \A i \in Instances : \A k \in DOMAIN values[i] :
                        k > AlarmIndex_SourceNodeId => values'[i][k] = values[i][k]
            /\ (\A i \in Instances : Discovered(values, i) = {})
                 => \A i \in Instances : DOMAIN values'[i] \subseteq 0..AlarmIndex_SourceNodeId]_vars

\* C5 witness: at version >= 2 a 7-byte Report for ordinal 6 was handled
\* while only {0,2} was discovered; Type took the report's value
C5_Witness ==
    /\ version >= 2
    /\ Handled(AlarmCmd_Report) /\ last.length >= ReportV2Length
    /\ last.data[6] = 6
    /\ Discovered(values, last.inst) = {0, 2}
    /\ GetValue(values, last.inst, AlarmIndex_Type) = <<21>>
    /\ GetValue(values, last.inst, 3) = <<0>> /\ GetValue(values, last.inst, 5) = <<0>>

\* C6: at version >= 2 a Report of at least 7 bytes whose subTypeOrdinal o is
\* discovered sets the attribute of o to subTypeEvent and leaves the
\* attribute of every other discovered ordinal unchanged.
C6_ReportUpdatesItsOrdinalOnly ==
    [][(V2ReportStep /\ last'.data[6] \in Discovered(values, last'.inst))
         => /\ GetValue(values', last'.inst, last'.data[6] + 3) = <<last'.data[7]>>
            /\ \A p \in Discovered(values, last'.inst) \ {last'.data[6]} :
                  GetValue(values', last'.inst, p + 3) = GetValue(values, last'.inst, p + 3)]_vars

\* C6 witness: mask {1,6} discovered, then Report ordinal 6 event 9:
\* Access Control is 9, Smoke still 0
C6_Witness ==
    /\ version >= 2
    /\ Handled(AlarmCmd_Report) /\ last.length >= ReportV2Length
    /\ last.data[6] = 6 /\ last.data[7] = 9
    /\ Discovered(values, last.inst) = {1, 6}
    /\ GetValue(values, last.inst, 6 + 3) = <<9>>
    /\ GetValue(values, last.inst, 1 + 3) = <<0>>
    /\ GetValue(values, last.inst, AlarmIndex_SourceNodeId) = <<3>>

\* C7: a Report of fewer than 3 bytes (below the minimum of every version)
\* changes no attribute value and no adapter state.
C7_TruncatedReportChangesNothing ==
    [][(last'.op = "HandleMsg" /\ last'.data[1] = AlarmCmd_Report /\ last'.length < 3)
         => values' = values /\ staticRequest' = staticRequest]_vars

\* C8: HandleMsg returns true exactly for the opcodes Report and
\* SupportedReport; for any other opcode it returns false and changes
\* neither the store nor the static request flag.
C8_ConsumesOnlyReportAndSupportedReport ==
    [][last'.op = "HandleMsg"
         => /\ ret' = (last'.data[1] \in {AlarmCmd_Report, AlarmCmd_SupportedReport})
            /\ last'.data[1] \notin {AlarmCmd_Report, AlarmCmd_SupportedReport}
                 => values' = values /\ staticRequest' = staticRequest]_vars

\* C8 witness: an inbound SupportedGet was refused while attributes exist
\* and discovery is still pending
C8_Witness ==
    /\ Handled(AlarmCmd_SupportedGet)
    /\ ret = FALSE
    /\ staticRequest
    /\ \E i \in Instances : DOMAIN values[i] # {}

\* C9: the static request flag is set at construction when the version is
\* 2 or more, and it goes from set to cleared only in a HandleMsg step of a
\* SupportedReport with the node present and the attributes materialized.
C9_FlagClearedOnlyBySuccessfulSupportedReport ==
    /\ (version >= 2 => staticRequest)
    /\ [][(staticRequest /\ ~staticRequest')
            => /\ last'.op = "HandleMsg"
               /\ last'.data[1] = AlarmCmd_SupportedReport
               /\ nodePresent
               /\ AlarmIndex_SourceNodeId \in DOMAIN values'[last'.inst]]_vars

\* the SupportedReport frames that hold the mask bytes they declare
WellFormedSupportedReports ==
    { f \in SupportedReportFrames : f.length >= 2 + f.data[2] }

\* C10: handling a SupportedReport twice in a row leaves the store (the
\* discovered set, the attributes and their values) as handling it once.
C10_SupportedReportIdempotent ==
    \A f \in WellFormedSupportedReports : \A inst \in Instances :
        LET once == SupportedReportValues(values, f.data, f.length, inst)
        IN  SupportedReportValues(once, f.data, f.length, inst) = once

\* C10 witness: the SupportedReport with mask {1,6} was handled again after
\* Access Control had been refreshed to 9: the value is kept, and handling
\* the frame once more changes nothing
C10_Witness ==
    /\ nodePresent
    /\ Handled(AlarmCmd_SupportedReport)
    /\ last.length = 3 /\ last.data[2] = 1 /\ last.data[3] = 66
    /\ GetValue(values, last.inst, 6 + 3) = <<9>>
    /\ SupportedReportValues(values, last.data, last.length, last.inst) = values

\* the ordinals a mask announces: i*8+b for every set bit b of mask byte i
\* (C index i+2 of the frame), kept when below Alarm_Count
MaskOrdinals(data) ==
    { o \in 0..(Alarm_Count - 1) :
        \E i \in 0..(data[2] - 1) : \E b \in 0..7 :
            o = i * 8 + b /\ (data[i + 3] \div (2 ^ b)) % 2 = 1 }

\* a step that handles a SupportedReport holding the mask bytes it declares,
\* with the node present
SupportedReportStep ==
    /\ last'.op = "HandleMsg"
    /\ last'.length >= 2
    /\ last'.data[1] = AlarmCmd_SupportedReport
    /\ last'.length >= 2 + last'.data[2]
    /\ nodePresent

\* C11: handling a SupportedReport adds to the discovered set exactly the
\* ordinals i*8+b < Alarm_Count of the set mask bits, creates SourceNodeId
\* and no attribute with an index of Alarm_Count + 3 or more.
C11_MaskBitsToOrdinals ==
    [][SupportedReportStep
         => /\ Discovered(values', last'.inst)
                 = Discovered(values, last'.inst) \cup MaskOrdinals(last'.data)
            /\ DOMAIN values'[last'.inst]
                 = DOMAIN values[last'.inst] \cup {AlarmIndex_SourceNodeId}
                     \cup { o + 3 : o \in MaskOrdinals(last'.data) }]_vars

\* C11 witness: two mask bytes [5, 96] were handled on a fresh sub-instance:
\* {0, 2, 13} discovered, bit 6 of byte 1 (ordinal 14) dropped
C11_Witness ==
    /\ nodePresent
    /\ Handled(AlarmCmd_SupportedReport)
    /\ last.length = 4 /\ last.data[2] = 2 /\ last.data[3] = 5 /\ last.data[4] = 96
    /\ Discovered(values, last.inst) = {0, 2, 13}
    /\ DOMAIN values[last.inst] = {2, 3, 5, 16}

\* C12: when Get is not supported no Get frame is ever sent, and
\* RequestValue returns false, sends nothing and changes no adapter state.
C12_NoGetWhenUnsupported ==
    [][~getSupported
         => /\ \A k \in 1..Len(sent') : sent'[k].cmd # AlarmCmd_Get
            /\ last'.op = "RequestValue"
                 => /\ ret' = FALSE
                    /\ sent' = <<>>
                    /\ values' = values
                    /\ staticRequest' = staticRequest]_vars

\* C12 witness: Get unsupported, version >= 2, ordinals discovered, and
\* RequestValue sent nothing and returned false
C12_Witness ==
    /\ ~getSupported /\ version >= 2
    /\ last.op = "RequestValue"
    /\ Discovered(values, last.inst) = {0, 2}
    /\ sent = <<>> /\ ret = FALSE

\* C13: discovery is pending per sub-instance: at version >= 2 a static
\* RequestState for a sub-instance that never received a SupportedReport
\* (with the node present: one that has no SourceNodeId) sends a SupportedGet,
\* also after the SupportedReport of another sub-instance was handled.
C13_StaticPollPerInstance ==
    (version >= 2 /\ nodePresent
        /\ last.op = "RequestState" /\ "Static" \in last.flags
        /\ AlarmIndex_SourceNodeId \notin DOMAIN values[last.inst])
        => sent = <<SupportedGetMsg(last.inst)>>

\* C14: after a Report of at least 7 bytes at version >= 2, with Type, Level
\* and SourceNodeId materialized, Type is byte[1], Level is byte[2] and
\* SourceNodeId is byte[3], whatever the subTypeOrdinal byte[5].
C14_FixedFieldsDecoded ==
    [][(V2ReportStep
          /\ (AlarmIndex_Type..AlarmIndex_SourceNodeId) \subseteq DOMAIN values[last'.inst])
         => /\ values'[last'.inst][AlarmIndex_Type] = last'.data[2]
            /\ values'[last'.inst][AlarmIndex_Level] = last'.data[3]
            /\ values'[last'.inst][AlarmIndex_SourceNodeId] = last'.data[4]]_vars

\* C15: HandleMsg reads no byte of the frame at an index of _length or more.
C15_NoReadPastLength ==
    last.op = "HandleMsg" => \A i \in reads : i < last.length

\* C18: after every call the adapter holds no Value handle.
C18_NoHandleHeld ==
    held = 0

\* C18 witness: a 7-byte Report at version >= 2 found all four values (Type,
\* Level, SourceNodeId, Access Control) and holds none of them
C18_Witness ==
    /\ version >= 2
    /\ Handled(AlarmCmd_Report) /\ last.length >= ReportV2Length
    /\ last.data[6] = 6
    /\ {AlarmIndex_Type, AlarmIndex_Level, AlarmIndex_SourceNodeId, 6 + 3}
           \subseteq DOMAIN values[last.inst]
    /\ values[last.inst][6 + 3] = 9
    /\ held = 0

\* C16: at version 1 no call sends a SupportedGet, and a RequestState with
\* the dynamic flag runs the dynamic poll (the single version-1 Get when Get
\* is supported) even while the static request flag is set.
C16_Version1NoDiscovery ==
    [][version = 1
        => /\ \A k \in DOMAIN sent' : sent'[k].cmd # AlarmCmd_SupportedGet
           /\ (last'.op = "RequestState" /\ "Dynamic" \in last'.flags)
                => /\ sent' = (IF getSupported THEN <<GetMsgV1(last'.inst)>> ELSE <<>>)
                   /\ ret' = getSupported]_vars

\* C16 witness: version 1, static flag still set, a RequestState with both
\* flags sent the version-1 Get
C16_Witness ==
    /\ version = 1 /\ staticRequest
    /\ last.op = "RequestState" /\ last.flags = {"Static", "Dynamic"}
    /\ sent = <<GetMsgV1(last.inst)>>
    /\ ret

\* C17: some protocol version selects the masked count: after a
\* SupportedReport whose count byte has a bit above 0x1F set, the mask bytes
\* read at that version are the byte[1] & 0x1F bytes from index 2.
C17_MaskedCountSelectable ==
    (Handled(AlarmCmd_SupportedReport) /\ nodePresent
        /\ last.length >= 2 /\ last.data[2] > 31)
        => \E ver \in 1..MaxVersion :
              ReadIndexes(ver, nodePresent, last.data) \ {0, 1}
                  = { i + 2 : i \in 0..((last.data[2] % 32) - 1) }

\* C19: a HandleMsg call for sub-instance A leaves the values (and so the
\* discovered set) of every other sub-instance as they were, and a poll for A
\* sends only frames tagged with A, its version >= 2 Gets naming ordinals
\* discovered for A.
C19_ScopedBySubInstance ==
    [][/\ last'.op = "HandleMsg"
            => \A b \in Instances \ {last'.inst} : values'[b] = values[b]
       /\ last'.op \in {"RequestValue", "RequestState"}
            => \A k \in DOMAIN sent' :
                  /\ sent'[k].instance = last'.inst
                  /\ (sent'[k].cmd = AlarmCmd_Get /\ version >= 2)
                        => sent'[k].args[2] \in Discovered(values, last'.inst)]_vars

\* C19 witness: sub-instance 1 has discovered {0,2}, sub-instance 2 {1,6} and
\* holds a refreshed Access Control value; a poll for sub-instance 2 sent the
\* Gets of ordinals 1 and 6
C19_Witness ==
    /\ version >= 2
    /\ Discovered(values, 1) = {0, 2}
    /\ Discovered(values, 2) = {1, 6}
    /\ GetValue(values, 2, 6 + 3) = <<9>>
    /\ last.op = "RequestValue" /\ last.inst = 2
    /\ sent = <<GetMsgV2(version, 2, 1), GetMsgV2(version, 2, 6)>>

\* C20: at version >= 2, with the driver polling and the device answering,
\* the static request flag is eventually cleared; once cleared it stays
\* cleared and no SupportedGet is sent any more.
C20_LeavesAwaitingCapabilities ==
    /\ (version >= 2) ~> ~staticRequest
    /\ [](~staticRequest
            => [](/\ ~staticRequest
                  /\ \A k \in DOMAIN sent : sent[k].cmd # AlarmCmd_SupportedGet))

\* C20 witness: at version >= 2 the answer was delivered (sub-types are
\* discovered), the flag is cleared, and a later static poll sent nothing
C20_Witness ==
    /\ version >= 2 /\ nodePresent
    /\ ~staticRequest
    /\ Discovered(values, 1) # {}
    /\ last.op = "RequestState" /\ last.flags = {"Static"}
    /\ sent = <<>> /\ ~ret

====
